---- MODULE Spec2Model ----
(***************************************************************************)
(* Moralisation, chordality test and triangulation of pyBN's BayesNet      *)
(* (src/pyBN/classes/BayesNet.py).                                         *)
(*                                                                         *)
(* Python lists are mutable objects: the model keeps them in a heap of     *)
(* named locations, and a program variable holding a list is a reference   *)
(* (a location name).  copy.copy allocates a new location; an assignment   *)
(* without copy shares the location.                                       *)
(***************************************************************************)
EXTENDS Integers, Sequences, FiniteSets, TLC

\* number of vertices of the network
NV == 5
\* largest number of directed edges of the network
MaxEdges == 5

Nodes == 1..NV
\* a vertex identifier that is in no network
Absent == NV + 1

VARIABLES
    V,             \* self.V
    data,          \* self.data: data[n].parents
    heap,          \* the list objects: location -> list
    pc,            \* "idle", "loop" (inside get_chordal_nx's for loop), "done"
    op,            \* the method called last
    branch,        \* the branch get_chordal_nx took: "chordal", "override", "degree"
    chordal_E,     \* get_chordal_nx's local chordal_E (a reference)
    temp_E,        \* get_chordal_nx's local temp_E (a reference)
    temp_V,        \* get_chordal_nx's local temp_V (a reference)
    idx,           \* position of the for loop in temp_V
    adj_v,         \* adj_v of the last iteration
    degree_keys,   \* iteration order of degree_dict
    fill,          \* the edges appended at line 522 so far
    in_v,          \* the caller's v list as passed
    in_e,          \* the caller's e list as passed
    in_edge_list,  \* the caller's edge_list as passed
    ret_list,      \* get_moralized_edge_list's return value
    ret_bool,      \* is_chordal's return value
    ret_g,         \* get_chordal_nx's return value
    raised         \* the exception the call ended in, "none" if it returned

vars == <<V, data, heap, pc, op, branch, chordal_E, temp_E, temp_V, idx, adj_v,
          degree_keys, fill, in_v, in_e, in_edge_list, ret_list, ret_bool, ret_g,
          raised>>

Locs == {"E", "v", "e", "edge_list", "e_list", "chordal_E", "temp_E", "temp_V", "none"}

-----------------------------------------------------------------------------
(* Python helpers *)

\* x in L
InList(x, L) == \E i \in 1..Len(L) : L[i] = x

\* ascending list of a set of identifiers
RECURSIVE NodeSeq(_)
NodeSeq(S) ==
    IF S = {} THEN <<>>
    ELSE LET m == CHOOSE x \in S : \A y \in S : x <= y
         IN  <<m>> \o NodeSeq(S \ {m})

Reverse(L) == [i \in 1..Len(L) |-> L[Len(L) + 1 - i]]

\* The order in which a dict or a set of vertex names is iterated follows the
\* names' hashes, not the names: the orders taken here are the ascending and
\* the descending one.
IterOrders(S) == {NodeSeq(S), Reverse(NodeSeq(S))}

\* the binding that results from copy.copy(src): a new list object
\* (CopyRefAlias: the binding of a plain assignment, which shares the list)
CopyRefAlias(src, fresh) == src
CopyRef(src, fresh) == fresh

\* the heap after copy.copy(src) has allocated its result at fresh
copy_copy(h, src, fresh) == [h EXCEPT ![fresh] = h[src]]

\* the heap after list.append
ListAppend(h, ref, x) == [h EXCEPT ![ref] = Append(h[ref], x)]

-----------------------------------------------------------------------------
(* networkx *)

EmptyGraph == [nodes |-> {}, edges |-> {}]

\* nx.Graph() followed by add_edges_from(L)
nx_Graph(L) ==
    [nodes |-> UNION {{L[i][1], L[i][2]} : i \in 1..Len(L)},
     edges |-> {{L[i][1], L[i][2]} : i \in 1..Len(L)}]

Nbrs(G, n) == {m \in G.nodes \ {n} : {n, m} \in G.edges}

IsClique(G, S) == \A a \in S : \A b \in S : a # b => {a, b} \in G.edges

\* nx.is_chordal: a graph is chordal iff simplicial vertices can be removed
\* one after the other until none is left
RECURSIVE nx_is_chordal(_)
nx_is_chordal(G) ==
    IF G.nodes = {} THEN TRUE
    ELSE LET simp == {n \in G.nodes : IsClique(G, Nbrs(G, n))}
         IN  IF simp = {} THEN FALSE
             ELSE LET x == CHOOSE x \in simp : TRUE
                  IN  nx_is_chordal([nodes |-> G.nodes \ {x},
                                     edges |-> {e \in G.edges : x \notin e}])

\* G.degree(): node -> degree
degree(G) == [n \in G.nodes |-> Cardinality({e \in G.edges : n \in e})]

\* sorted(degree_dict, key=degree_dict.get): a stable sort of the keys
RECURSIVE SortedFrom(_, _, _)
SortedFrom(keys, deg, d) ==
    IF d > Len(keys) THEN <<>>
    ELSE SelectSeq(keys, LAMBDA n : deg[n] = d) \o SortedFrom(keys, deg, d + 1)

\* (sorted_by_degree_unsorted: the keys as the dict iterates them)
sorted_by_degree_unsorted(keys, deg) == keys
sorted_by_degree(keys, deg) == SortedFrom(keys, deg, 0)

-----------------------------------------------------------------------------
(* get_moralized_edge_list *)

\* the two inner loops, for p1 in parents: for p2 in parents
RECURSIVE MoralPairs(_, _, _)
MoralPairs(e_list, parents, k) ==
    IF k > Len(parents) * Len(parents) THEN e_list
    ELSE LET p1 == parents[((k - 1) \div Len(parents)) + 1]
             p2 == parents[((k - 1) % Len(parents)) + 1]
             add == /\ p1 # p2
                    /\ ~InList(<<p1, p2>>, e_list)
                    /\ ~InList(<<p2, p1>>, e_list)
         IN  MoralPairs(IF add THEN Append(e_list, <<p1, p2>>) ELSE e_list,
                        parents, k + 1)

\* the same loops without the test p1 != p2
RECURSIVE MoralPairsSelf(_, _, _)
MoralPairsSelf(e_list, parents, k) ==
    IF k > Len(parents) * Len(parents) THEN e_list
    ELSE LET p1 == parents[((k - 1) \div Len(parents)) + 1]
             p2 == parents[((k - 1) % Len(parents)) + 1]
             add == /\ ~InList(<<p1, p2>>, e_list)
                    /\ ~InList(<<p2, p1>>, e_list)
         IN  MoralPairsSelf(IF add THEN Append(e_list, <<p1, p2>>) ELSE e_list,
                            parents, k + 1)

\* the loop body for one node
MoralNodeSelf(e_list, parents) == MoralPairsSelf(e_list, parents, 1)
MoralNode(e_list, parents) == MoralPairs(e_list, parents, 1)

\* for node in self.V
RECURSIVE MoralNodes(_, _, _, _)
MoralNodes(e_list, Vs, d, i) ==
    IF i > Len(Vs) THEN e_list
    ELSE MoralNodes(MoralNode(e_list, d[Vs[i]].parents), Vs, d, i + 1)

\* the whole method on heap h: the heap it leaves and the reference it returns
get_moralized_edge_list(h) ==
    LET e_list == CopyRef("E", "e_list")
        h1 == copy_copy(h, "E", "e_list")
    IN  [heap |-> [h1 EXCEPT ![e_list] = MoralNodes(h1[e_list], V, data, 1)],
         ref |-> e_list]

-----------------------------------------------------------------------------
(* is_chordal *)

is_chordal(h, edge_list) ==
    LET el == IF h[edge_list] = <<>> THEN "E" ELSE edge_list
    IN  nx_is_chordal(nx_Graph(h[el]))

-----------------------------------------------------------------------------
(* get_chordal_nx *)

\* adj_v of line 517
AdjOf(E, v) ==
    {n \in UNION {{E[i][1], E[i][2]} : i \in 1..Len(E)} :
        /\ n # v
        /\ \E i \in 1..Len(E) : v \in {E[i][1], E[i][2]} /\ n \in {E[i][1], E[i][2]}}

\* lines 518-523, adj iterated in the order adj
RECURSIVE FillIn(_, _, _, _, _)
FillIn(h, rc, rt, adj, k) ==
    IF k > Len(adj) * Len(adj) THEN h
    ELSE LET a1 == adj[((k - 1) \div Len(adj)) + 1]
             a2 == adj[((k - 1) % Len(adj)) + 1]
             add == /\ a1 # a2
                    /\ ~InList(<<a1, a2>>, h[rc])
                    /\ ~InList(<<a2, a1>>, h[rc])
         IN  FillIn(IF add
                    THEN ListAppend(ListAppend(h, rc, <<a1, a2>>), rt, <<a1, a2>>)
                    ELSE h,
                    rc, rt, adj, k + 1)

\* the same lines without the test of [a2,a1]
RECURSIVE FillInOneWay(_, _, _, _, _)
FillInOneWay(h, rc, rt, adj, k) ==
    IF k > Len(adj) * Len(adj) THEN h
    ELSE LET a1 == adj[((k - 1) \div Len(adj)) + 1]
             a2 == adj[((k - 1) % Len(adj)) + 1]
             add == /\ a1 # a2
                    /\ ~InList(<<a1, a2>>, h[rc])
         IN  FillInOneWay(IF add
                    THEN ListAppend(ListAppend(h, rc, <<a1, a2>>), rt, <<a1, a2>>)
                    ELSE h,
                    rc, rt, adj, k + 1)

\* the fill-in of one iteration
fill_in_one_way(h, rc, rt, adj) == FillInOneWay(h, rc, rt, adj, 1)
fill_in(h, rc, rt, adj) == FillIn(h, rc, rt, adj, 1)

\* lines 525-528: temp_E2
\* (remove_links_keep: temp_E left as it is)
remove_links_keep(E, v) == E
remove_links(E, v) == SelectSeq(E, LAMBDA edge : v \notin {edge[1], edge[2]})

\* lines 531-533
\* (result_graph_temp: the graph of temp_E instead)
result_graph_temp(h, rc, rt) == nx_Graph(h[rt])
result_graph(h, rc, rt) == nx_Graph(h[rc])

-----------------------------------------------------------------------------
(* the network and the callers' inputs *)

ForwardEdges == {e \in Nodes \X Nodes : e[1] < e[2]}

Before(x, y) == x[1] < y[1] \/ (x[1] = y[1] /\ x[2] <= y[2])

RECURSIVE EdgeSeq(_)
EdgeSeq(S) ==
    IF S = {} THEN <<>>
    ELSE LET m == CHOOSE x \in S : \A y \in S : Before(x, y)
         IN  <<m>> \o EdgeSeq(S \ {m})

Cycle4 == <<<<1, 2>>, <<2, 3>>, <<3, 4>>, <<4, 1>>>>

\* edge lists a caller passes as e
OverrideEdgeLists ==
    { Cycle4,
      Cycle4 \o <<<<2, 1>>>>,
      <<<<1, 2>>, <<2, 3>>>>,
      <<<<Absent, 1>>, <<1, 2>>>> }

\* vertex lists a caller passes as v
OverrideVertexLists ==
    { <<NV>>,
      <<2, 1, 3, 4>>,
      <<Absent, 1, 2>> }

\* the (v, e) a caller passes: none, one of the two, or both
Overrides ==
    {<< <<>>, <<>> >>, << <<NV>>, <<>> >>, << <<>>, Cycle4 >>}
        \cup (OverrideVertexLists \X OverrideEdgeLists)

\* edge lists a caller passes to is_chordal
EdgeListInputs ==
    { <<>>,
      Cycle4,
      Cycle4 \o <<<<1, 3>>>>,
      <<<<1, 2>>>> }

ClearedHeap(h) == [l \in Locs |-> IF l = "E" THEN h["E"] ELSE <<>>]

Init ==
    \E S \in SUBSET ForwardEdges :
        /\ Cardinality(S) <= MaxEdges
        /\ V = NodeSeq(Nodes)
        /\ data = [n \in Nodes |-> [parents |-> NodeSeq({p \in Nodes : <<p, n>> \in S})]]
        /\ heap = [l \in Locs |-> IF l = "E" THEN EdgeSeq(S) ELSE <<>>]
        /\ pc = "idle"
        /\ op = "none"
        /\ branch = "none"
        /\ chordal_E = "none"
        /\ temp_E = "none"
        /\ temp_V = "none"
        /\ idx = 0
        /\ adj_v = {}
        /\ degree_keys = <<>>
        /\ fill = {}
        /\ in_v = <<>>
        /\ in_e = <<>>
        /\ in_edge_list = <<>>
        /\ ret_list = <<>>
        /\ ret_bool = FALSE
        /\ ret_g = EmptyGraph
        /\ raised = "none"

\* the locals and results a new call starts from
NewCall(name) ==
    /\ pc = "idle"
    /\ op' = name
    /\ raised' = "none"
    /\ UNCHANGED <<V, data>>

NoChordalLocals ==
    /\ branch' = "none"
    /\ chordal_E' = "none"
    /\ temp_E' = "none"
    /\ temp_V' = "none"
    /\ idx' = 0
    /\ adj_v' = {}
    /\ degree_keys' = <<>>
    /\ fill' = {}
    /\ in_v' = <<>>
    /\ in_e' = <<>>
    /\ ret_g' = EmptyGraph

-----------------------------------------------------------------------------
(* the operations *)

Moralize ==
    /\ NewCall("get_moralized_edge_list")
    /\ NoChordalLocals
    /\ LET m == get_moralized_edge_list(ClearedHeap(heap))
       IN  /\ heap' = m.heap
           /\ ret_list' = m.heap[m.ref]
    /\ in_edge_list' = <<>>
    /\ ret_bool' = FALSE
    /\ pc' = "done"

IsChordal(edge_list) ==
    /\ NewCall("is_chordal")
    /\ NoChordalLocals
    /\ LET h == [ClearedHeap(heap) EXCEPT !["edge_list"] = edge_list]
       IN  /\ heap' = h
           /\ ret_bool' = is_chordal(h, "edge_list")
    /\ in_edge_list' = edge_list
    /\ ret_list' = <<>>
    /\ pc' = "done"

\* the moral graph of line 496 and the outcome of line 499
MoralOf(h) == {get_moralized_edge_list(ClearedHeap(h))}
ChordalOf(m) == {is_chordal(m.heap, m.ref)}

\* the heap with the caller's v and e
WithArgs(h, v, e) == [h EXCEPT !["v"] = v, !["e"] = e]

ChordalArgs(v, e) ==
    /\ NewCall("get_chordal_nx")
    /\ in_v' = v
    /\ in_e' = e
    /\ in_edge_list' = <<>>
    /\ ret_list' = <<>>
    /\ ret_bool' = FALSE
    /\ adj_v' = {}
    /\ fill' = {}

\* lines 496-499 and 531-533: the moral graph m is chordal (c)
ChordalFast(v, e) ==
    /\ pc = "idle"
    /\ \E m \in MoralOf(heap) : \E c \in ChordalOf(m) :
        /\ c
        /\ ChordalArgs(v, e)
        /\ heap' = WithArgs(m.heap, v, e)
        /\ chordal_E' = m.ref
        /\ ret_g' = result_graph(m.heap, m.ref, "none")
        /\ branch' = "chordal"
        /\ temp_E' = "none"
        /\ temp_V' = "none"
        /\ idx' = 0
        /\ degree_keys' = <<>>
        /\ pc' = "done"

\* lines 496-507: v and e are supplied
ChordalOverride(v, e) ==
    /\ pc = "idle"
    /\ Len(v) > 0 /\ Len(e) > 0
    /\ \E m \in MoralOf(heap) : \E c \in ChordalOf(m) :
        /\ ~c
        /\ ChordalArgs(v, e)
        /\ LET t0 == CopyRef(m.ref, "temp_E")
               h0 == copy_copy(WithArgs(m.heap, v, e), m.ref, "temp_E")
               rc == CopyRef("e", "chordal_E")
               h1 == copy_copy(h0, "e", "chordal_E")
               rt == CopyRef(rc, "temp_E")
               h2 == copy_copy(h1, rc, "temp_E")
               rv == CopyRef("v", "temp_V")
               h3 == copy_copy(h2, "v", "temp_V")
           IN  /\ heap' = h3
               /\ chordal_E' = rc
               /\ temp_E' = rt
               /\ temp_V' = rv
        /\ branch' = "override"
        /\ degree_keys' = <<>>
        /\ idx' = 1
        /\ ret_g' = EmptyGraph
        /\ pc' = "loop"

\* lines 496-502 and 508-512: the vertices in order of degree
ChordalDegree(v, e) ==
    /\ pc = "idle"
    /\ ~(Len(v) > 0 /\ Len(e) > 0)
    /\ \E m \in MoralOf(heap) : \E c \in ChordalOf(m) :
        /\ ~c
        /\ ChordalArgs(v, e)
        /\ LET rt == CopyRef(m.ref, "temp_E")
               h0 == copy_copy(WithArgs(m.heap, v, e), m.ref, "temp_E")
               temp_G == nx_Graph(h0[m.ref])
               degree_dict == degree(temp_G)
           IN  /\ \E keys \in IterOrders(DOMAIN degree_dict) :
                    /\ degree_keys' = keys
                    /\ heap' = [h0 EXCEPT !["temp_V"] = sorted_by_degree(keys, degree_dict)]
               /\ chordal_E' = m.ref
               /\ temp_E' = rt
               /\ temp_V' = "temp_V"
        /\ branch' = "degree"
        /\ idx' = 1
        /\ ret_g' = EmptyGraph
        /\ pc' = "loop"

\* lines 514-529: one iteration of for v in temp_V
EliminateStep ==
    /\ pc = "loop"
    /\ idx <= Len(heap[temp_V])
    /\ LET v == heap[temp_V][idx]
           adj == AdjOf(heap[temp_E], v)
       IN  \E order \in IterOrders(adj) :
             LET h1 == fill_in(heap, chordal_E, temp_E, order)
                 n0 == Len(heap[chordal_E])
                 h2 == [h1 EXCEPT !["temp_E"] = remove_links(h1[temp_E], v)]
             IN  /\ heap' = h2
                 /\ adj_v' = adj
                 /\ fill' = fill \cup {{h1[chordal_E][i][1], h1[chordal_E][i][2]} :
                                          i \in (n0 + 1)..Len(h1[chordal_E])}
    /\ temp_E' = "temp_E"
    /\ idx' = idx + 1
    \* degree_dict is not read after line 512
    /\ degree_keys' = <<>>
    /\ UNCHANGED <<V, data, pc, op, branch, chordal_E, temp_V,
                   in_v, in_e, in_edge_list, ret_list, ret_bool, ret_g, raised>>

\* lines 531-533 after the loop
ChordalReturn ==
    /\ pc = "loop"
    /\ idx > Len(heap[temp_V])
    /\ ret_g' = result_graph(heap, chordal_E, temp_E)
    /\ pc' = "done"
    /\ UNCHANGED <<V, data, heap, op, branch, chordal_E, temp_E, temp_V, idx, adj_v,
                   degree_keys, fill, in_v, in_e, in_edge_list, ret_list, ret_bool,
                   raised>>

\* the caller drops the result and the locals; the network stays
Return ==
    /\ pc = "done"
    /\ pc' = "idle"
    /\ op' = "none"
    /\ heap' = ClearedHeap(heap)
    /\ NoChordalLocals
    /\ in_edge_list' = <<>>
    /\ ret_list' = <<>>
    /\ ret_bool' = FALSE
    /\ UNCHANGED <<V, data, raised>>

Next ==
    \/ Moralize
    \/ \E edge_list \in EdgeListInputs : IsChordal(edge_list)
    \/ \E o \in Overrides : ChordalFast(o[1], o[2])
    \/ \E o \in Overrides : ChordalOverride(o[1], o[2])
    \/ \E o \in Overrides : ChordalDegree(o[1], o[2])
    \/ EliminateStep
    \/ ChordalReturn
    \/ Return

Spec == Init /\ [][Next]_vars

-----------------------------------------------------------------------------
(* the graphs the claims speak of *)

Undirected(L) == {{L[i][1], L[i][2]} : i \in 1..Len(L)}

GraphOf(Ed) == [nodes |-> UNION Ed, edges |-> Ed]

ParentSet(n) == {data[n].parents[i] : i \in 1..Len(data[n].parents)}

\* the moral graph by its definition: the network's edges without direction
\* and an edge between every two parents of a vertex
MoralSet ==
    Undirected(heap["E"])
        \cup UNION {{pq \in {{p, q} : p \in ParentSet(n), q \in ParentSet(n)} :
                       Cardinality(pq) = 2} : n \in Nodes}

MoralDegree(n) == Cardinality({ed \in MoralSet : n \in ed})

\* no pair twice, in the same or in the other orientation
NoDup(L) ==
    \A i \in 1..Len(L) : \A j \in 1..Len(L) :
        i < j => /\ L[i] # L[j]
                 /\ L[i] # <<L[j][2], L[j][1]>>

IsPrefix(L, M) == Len(L) <= Len(M) /\ SubSeq(M, 1, Len(L)) = L

MoralizeDone == op = "get_moralized_edge_list" /\ pc = "done"
IsChordalDone == op = "is_chordal" /\ pc = "done"
ChordalDone == op = "get_chordal_nx" /\ pc = "done"
InElimination == op = "get_chordal_nx" /\ branch \in {"override", "degree"}
BothSupplied == Len(in_v) > 0 /\ Len(in_e) > 0
Eliminated == {heap[temp_V][i] : i \in 1..(idx - 1)}

-----------------------------------------------------------------------------
(* C1 *)

\* C1: the graph get_chordal_nx returns is chordal, whatever v and e are; from
\* the chordless cycle 1-2-3-4-1 it holds the diagonal 1-3 or 2-4.
C1_ChordalityPostcondition ==
    ChordalDone =>
        /\ nx_is_chordal(ret_g)
        /\ Undirected(Cycle4) \subseteq ret_g.edges
             => ({1, 3} \in ret_g.edges \/ {2, 4} \in ret_g.edges)

\* Without a used override the returned graph is chordal.
ChordalWithoutOverride ==
    (ChordalDone /\ branch # "override") => nx_is_chordal(ret_g)

-----------------------------------------------------------------------------
(* C2 *)

\* C2 as claimed: whatever v and e are, every moral edge is an edge of the
\* returned graph, which is the moral edges plus the fill-in edges.
C2_SupersetOfMoral ==
    ChordalDone =>
        /\ MoralSet \subseteq ret_g.edges
        /\ ret_g.edges = MoralSet \cup fill

\* C2: every edge of the starting edge set (the moral edges, or the list e when
\* v and e are supplied and the moral graph is not chordal) is an edge of the
\* returned graph, which is the starting edges plus the fill-in edges.
C2_SupersetOfStart ==
    ChordalDone =>
        LET start == IF branch = "override" THEN Undirected(in_e) ELSE MoralSet
        IN  /\ start \subseteq ret_g.edges
            /\ ret_g.edges = start \cup fill

C2_Witness ==
    /\ ChordalDone
    /\ branch = "degree"
    /\ fill # {}
    /\ MoralSet # Undirected(heap["E"])

-----------------------------------------------------------------------------
(* C3 *)

\* C3: when the edge set handed to get_chordal_nx (the list e if v and e are
\* supplied, the moral graph otherwise) is chordal, no fill-in edge is added
\* and the returned edge set is that edge set.
C3_NoOpOnChordal ==
    ChordalDone =>
        LET handed == IF BothSupplied THEN Undirected(in_e) ELSE MoralSet
        IN  nx_is_chordal(GraphOf(handed)) =>
                /\ fill = {}
                /\ ret_g.edges = handed

\* When the moral graph is chordal it is returned as it is, v and e ignored.
MoralChordalReturned ==
    (ChordalDone /\ nx_is_chordal(GraphOf(MoralSet))) =>
        /\ fill = {}
        /\ ret_g.edges = MoralSet

-----------------------------------------------------------------------------
(* C4 *)

\* C4: is_chordal of an empty edge list is true, and get_chordal_nx of a
\* network without edges returns no edge.
C4_EmptyIsChordal ==
    /\ (IsChordalDone /\ in_edge_list = <<>>) => ret_bool = TRUE
    /\ (ChordalDone /\ heap["E"] = <<>>) => ret_g.edges = {}

-----------------------------------------------------------------------------
(* C5 *)

\* C5: get_moralized_edge_list returns, as a set of unordered pairs, the
\* network's edges and one edge for every two distinct parents of a vertex,
\* and nothing else; if no vertex has two parents the list is self.E.
C5_MoralizerResult ==
    MoralizeDone =>
        /\ Undirected(ret_list) = MoralSet
        /\ (\A n \in Nodes : Len(data[n].parents) <= 1) => ret_list = heap["E"]
        /\ heap["E"] = <<<<1, 3>>, <<2, 3>>>>
             => Undirected(ret_list) = {{1, 3}, {2, 3}, {1, 2}}

C5_Witness ==
    /\ MoralizeDone
    /\ heap["E"] = <<<<1, 3>>, <<2, 3>>>>
    /\ ret_list = <<<<1, 3>>, <<2, 3>>, <<1, 2>>>>

-----------------------------------------------------------------------------
(* C6 *)

ListsHeld ==
    /\ MoralizeDone => NoDup(ret_list)
    /\ op = "get_chordal_nx" => NoDup(heap[chordal_E]) /\ NoDup(heap[temp_E])

\* C6 as claimed: the list the moralizer returns, chordal_E and temp_E never
\* hold a pair twice, in the same or in the other orientation.
C6_NoDuplicateEdges == ListsHeld

\* C6: the same, for calls whose list e, when it is used, holds no pair twice.
C6_NoDuplicateEdgesGivenCleanOverride ==
    (branch = "override" => NoDup(in_e)) => ListsHeld

C6_Witness ==
    /\ op = "get_chordal_nx"
    /\ pc = "loop"
    /\ fill # {}
    /\ heap[temp_E] # <<>>

-----------------------------------------------------------------------------
(* C7 *)

\* self.V, self.E and self.data stay as they are
NetworkUnchanged ==
    /\ V' = V
    /\ data' = data
    /\ heap'["E"] = heap["E"]

\* the caller's lists are as they were passed, and the lists appended to or
\* filtered are the method's own
ArgumentsIntact ==
    /\ heap["v"] = in_v
    /\ heap["e"] = in_e
    /\ heap["edge_list"] = in_edge_list
    /\ chordal_E \in {"none", "e_list", "chordal_E"}
    /\ temp_E \in {"none", "temp_E"}

\* C7: no method changes the network or a list the caller passed.
C7_Frame == [][NetworkUnchanged]_vars /\ []ArgumentsIntact

C7_Witness ==
    /\ ChordalDone
    /\ branch = "override"
    /\ fill # {}
    /\ MoralSet # Undirected(heap["E"])

-----------------------------------------------------------------------------
(* C8 *)

Mentions(n) ==
    \/ \E i \in 1..Len(in_v) : in_v[i] = n
    \/ \E i \in 1..Len(in_e) : n \in {in_e[i][1], in_e[i][2]}

\* C8: a call whose v or e names a vertex that is not in the network ends in
\* InconsistentEdgeOverride and returns no graph.
C8_OverrideValidation ==
    (ChordalDone /\ Mentions(Absent)) =>
        /\ raised = "InconsistentEdgeOverride"
        /\ ret_g = EmptyGraph

-----------------------------------------------------------------------------
(* C9 *)

\* every vertex of the moral graph once
EachMoralVertexOnce(L) ==
    /\ {L[i] : i \in 1..Len(L)} = UNION MoralSet
    /\ Len(L) = Cardinality(UNION MoralSet)

Position(L, n) == CHOOSE i \in 1..Len(L) : L[i] = n

\* C9 as claimed: without used overrides the vertices of the moral graph are
\* eliminated once each, by ascending degree and, at equal degree, by
\* ascending identifier.
C9_OrderByDegreeThenIdentifier ==
    (op = "get_chordal_nx" /\ branch = "degree") =>
        LET L == heap[temp_V]
        IN  /\ EachMoralVertexOnce(L)
            /\ \A i \in 1..Len(L) : \A j \in 1..Len(L) :
                 i < j => \/ MoralDegree(L[i]) < MoralDegree(L[j])
                          \/ MoralDegree(L[i]) = MoralDegree(L[j]) /\ L[i] < L[j]
            /\ pc = "done" => idx = Len(L) + 1

\* C9: the vertices of the moral graph are eliminated once each, by ascending
\* degree and, at equal degree, in the order degree_dict iterates them.
C9_OrderByDegreeThenDictOrder ==
    (op = "get_chordal_nx" /\ branch = "degree") =>
        LET L == heap[temp_V]
        IN  /\ EachMoralVertexOnce(L)
            /\ \A i \in 1..Len(L) : \A j \in 1..Len(L) :
                 i < j => MoralDegree(L[i]) <= MoralDegree(L[j])
            /\ degree_keys # <<>> =>
                 \A i \in 1..Len(L) : \A j \in 1..Len(L) :
                   (i < j /\ MoralDegree(L[i]) = MoralDegree(L[j]))
                      => Position(degree_keys, L[i]) < Position(degree_keys, L[j])
            /\ pc = "done" => idx = Len(L) + 1

C9_Witness ==
    /\ ChordalDone
    /\ branch = "degree"
    /\ \E i \in 1..Len(heap[temp_V]) : \E j \in 1..Len(heap[temp_V]) :
         /\ i < j
         /\ MoralDegree(heap[temp_V][i]) = MoralDegree(heap[temp_V][j])
         /\ heap[temp_V][i] > heap[temp_V][j]

-----------------------------------------------------------------------------
(* C10 *)

AfterIteration ==
    InElimination =>
        /\ Undirected(heap[temp_E])
             = {ed \in Undirected(heap[chordal_E]) : ed \cap Eliminated = {}}
        /\ idx > 1 =>
             \A a \in adj_v : \A b \in adj_v :
                a # b => {a, b} \in Undirected(heap[chordal_E])
        /\ (pc = "done" /\ branch = "degree") => heap[temp_E] = <<>>

ChordalEGrows ==
    pc = "loop" => IsPrefix(heap[chordal_E], heap'[chordal_E'])

\* C10: after every iteration temp_E is chordal_E without the edges at an
\* eliminated vertex, the neighbours of the vertex just eliminated are pairwise
\* joined in chordal_E, chordal_E loses no edge, and without used overrides
\* temp_E is empty after the loop.
C10_LoopInvariant == []AfterIteration /\ [][ChordalEGrows]_vars

C10_Witness ==
    /\ InElimination
    /\ pc = "loop"
    /\ idx > 1
    /\ Cardinality(adj_v) >= 2
    /\ fill # {}
    /\ heap[temp_E] # <<>>

====
